---- MODULE Spec2Model ----
(***************************************************************************)
(* The Table/Order mutation resolvers of graphql/schema/Table/mutations.ts *)
(* (src/unnamed/part_000) over the Prisma store they read and write.       *)
(*                                                                         *)
(* Every resolver awaits each Prisma call, so a resolver that looks a      *)
(* record up and then writes is two steps of the state machine, and other  *)
(* clients' steps may fall between them.  The authentication and role      *)
(* checks read only the call's own context, so they are part of the        *)
(* resolver's first step.                                                  *)
(*                                                                         *)
(* Outcomes are named by the error taxonomy: the resolver's own            *)
(* GraphQLErrors ("You must be logged in" = Unauthenticated, "You are not  *)
(* authorized" = Forbidden, "already exists" = Conflict, "not found" =     *)
(* NotFound) and the errors the Prisma client throws (record to update or  *)
(* delete not found = NotFound, unique constraint failed = Conflict,       *)
(* foreign key constraint failed = ForeignKey, null for a required column  *)
(* = Invalid).                                                             *)
(***************************************************************************)
EXTENDS Integers, Sequences, FiniteSets, TLC

VARIABLES
    tables,   \* the Table records: a function from the ids in the store to records
    nextId,   \* the id prisma.table.create gives the next Table (ids are never reused)
    orders,   \* the Order records, in creation order
    pending,  \* per client: the resolver suspended between its lookup and its write
    last,     \* the most recent response: the call and its outcome
    served    \* history: the clients that have received a response

vars == <<tables, nextId, orders, pending, last, served>>

\* At most this many Table ids are ever allocated.
MaxTables == 2
\* At most this many Orders are ever created.
MaxOrders == 1

Clients == {"c1", "c2"}

Roles == {"USER", "ADMIN", "DELIVERY", "WAITER", "CHEF", "MANAGER"}
\* context.user is absent
NoUser == "NONE"
Users == Roles \cup {NoUser}

TableIds == 1..MaxTables
TableNumbers == {0, 1}
Diners == {0, 4}
Positions == {"x10y20"}
\* a position column holding no JSON value
NoPosition == "NULL"
Areas == {"a1", "a2"}
RequestLists == {<<>>, <<"window">>}
OrderNumbers == {"o1", "o2"}
Notes == {"no onions"}
NoNote == "NULL"

(***************************************************************************)
(* An optional GraphQL argument is left out (undefined), null, or a value. *)
(***************************************************************************)
Undefined == [k |-> "undefined"]
Null == [k |-> "null"]
Some(v) == [k |-> "value", v |-> v]
Optional(S) == {Undefined, Null} \cup {Some(v) : v \in S}
Nullish(x) == x.k \in {"undefined", "null"}

\* x ?? undefined
OrUndefined(x) == IF Nullish(x) THEN Undefined ELSE x
\* x ?? d
OrDefault(x, d) == IF Nullish(x) THEN d ELSE x.v

Idle == [op |-> "idle"]
NoCall == [op |-> "none"]
Suspended(op, user, args) == [op |-> op, user |-> user, args |-> args]
Response(op, user, args, outcome) ==
    [op |-> op, user |-> user, args |-> args, outcome |-> outcome]

(***************************************************************************)
(* The checks on context.user that open every resolver.                    *)
(***************************************************************************)
\* the login check left out
LoggedInUnchecked(user) == TRUE

LoggedIn(user) == user # NoUser
\* context.user?.role ?? ""
RoleOf(user) == IF user = NoUser THEN "" ELSE user

CanAddTable(user) == RoleOf(user) \in {"ADMIN", "MANAGER"}
\* editTable given addTable's role list
CanEditTableAsManager(user) == RoleOf(user) \in {"ADMIN", "MANAGER"}

CanEditTable(user) == RoleOf(user) = "ADMIN"
CanDeleteTable(user) == RoleOf(user) = "ADMIN"
CanToggleReservation(user) == RoleOf(user) = "ADMIN"
CanAddOrder(user) == RoleOf(user) \in {"ADMIN", "MANAGER", "WAITER"}
CanMoveTable(user) == RoleOf(user) \in {"ADMIN", "MANAGER"}

\* The outcome of a resolver's opening checks: the first error thrown, or "Ok".
Checked(user, allowed) ==
    IF ~LoggedIn(user) THEN "Unauthenticated"
    ELSE IF ~allowed THEN "Forbidden"
    ELSE "Ok"

(***************************************************************************)
(* The Prisma store.                                                       *)
(***************************************************************************)
NoTables == [i \in {} |-> 0]

\* where: { id }
WhereId(tbls, id) == {i \in DOMAIN tbls : i = id}
\* where: { tableNumber }
WhereTableNumber(tbls, n) == {i \in DOMAIN tbls : tbls[i].tableNumber = n}

\* tableNumber declared without its unique index
TableNumberNotUnique(tbls, n, except) == FALSE

\* Table.tableNumber is a unique column: n is held by a record other than `except`.
TableNumberTaken(tbls, n, except) ==
    \E i \in DOMAIN tbls \ except : tbls[i].tableNumber = n

\* The indexes of the Orders that reference Table id.
Referencing(ords, id) == {i \in 1..Len(ords) : ords[i].tableId = id}

\* Whether the database rejects an Order row whose tableId matches no Table
\* (a foreign key), and what it does with the Orders of a deleted Table, are
\* set by the schema: every policy is a possible outcome.
ForeignKeyEnforced == BOOLEAN
ReferentialActions == {"Restrict", "Cascade", "NoAction"}

StoreResult(outcome, tbls, nid) == [outcome |-> outcome, tables |-> tbls, nextId |-> nid]

\* prisma.table.create({ data })
TableCreate(tbls, nid, data) ==
    IF TableNumberTaken(tbls, data.tableNumber, {})
    THEN StoreResult("Conflict", tbls, nid)
    ELSE StoreResult("Ok", tbls @@ (nid :> data), nid + 1)

\* An update's data: a field left undefined is not written.
NoChange ==
    [tableNumber |-> Undefined, diners |-> Undefined, reserved |-> Undefined,
     position |-> Undefined, specialRequests |-> Undefined, areaId |-> Undefined]

ApplyField(old, x) == IF x.k = "value" THEN x.v ELSE old

Patch(old, data) ==
    [tableNumber |-> ApplyField(old.tableNumber, data.tableNumber),
     diners |-> ApplyField(old.diners, data.diners),
     reserved |-> ApplyField(old.reserved, data.reserved),
     position |-> ApplyField(old.position, data.position),
     specialRequests |-> ApplyField(old.specialRequests, data.specialRequests),
     areaId |-> ApplyField(old.areaId, data.areaId)]

HasNull(data) == \E f \in DOMAIN data : data[f] = Null

\* updateMany in place of update: no error when nothing matches
TableUpdateMany(tbls, nid, match, data) ==
    IF HasNull(data) THEN StoreResult("Invalid", tbls, nid)
    ELSE IF match = {} THEN StoreResult("Ok", tbls, nid)
    ELSE LET id == CHOOSE i \in match : TRUE
             new == Patch(tbls[id], data)
         IN  IF TableNumberTaken(tbls, new.tableNumber, {id})
             THEN StoreResult("Conflict", tbls, nid)
             ELSE StoreResult("Ok", [tbls EXCEPT ![id] = new], nid)

\* prisma.table.update({ where, data }), `match` the ids the where clause selects
TableUpdate(tbls, nid, match, data) ==
    IF HasNull(data) THEN StoreResult("Invalid", tbls, nid)
    ELSE IF match = {} THEN StoreResult("NotFound", tbls, nid)
    ELSE LET id == CHOOSE i \in match : TRUE
             new == Patch(tbls[id], data)
         IN  IF TableNumberTaken(tbls, new.tableNumber, {id})
             THEN StoreResult("Conflict", tbls, nid)
             ELSE StoreResult("Ok", [tbls EXCEPT ![id] = new], nid)

Without(tbls, id) == [i \in DOMAIN tbls \ {id} |-> tbls[i]]

(***************************************************************************)
(* The resolvers.  `Reply` is the response of a resolver that wrote        *)
(* nothing; `Commit` is the response that follows a Table write.           *)
(***************************************************************************)
Reply(c, op, user, args, outcome) ==
    /\ last' = Response(op, user, args, outcome)
    /\ served' = served \cup {c}
    /\ UNCHANGED <<tables, nextId, orders>>

Commit(c, op, user, args, r) ==
    /\ last' = Response(op, user, args, r.outcome)
    /\ served' = served \cup {c}
    /\ tables' = r.tables
    /\ nextId' = r.nextId
    /\ UNCHANGED orders

Suspend(c, op, user, args) ==
    /\ pending' = [pending EXCEPT ![c] = Suspended(op, user, args)]
    /\ UNCHANGED <<tables, nextId, orders, last, served>>

InFlight(op) == Cardinality({c \in Clients : pending[c].op = op})

\* addTable: the data of the new record
AddTableData(args) ==
    [tableNumber |-> args.tableNumber,
     diners |-> args.diners,
     position |-> OrDefault(args.position, NoPosition),
     areaId |-> args.areaId,
     reserved |-> OrDefault(args.reserved, FALSE),
     specialRequests |-> OrDefault(args.specialRequests, <<>>)]

\* addTable, to the end of its findFirst
addTable(c, user, args) ==
    /\ pending[c] = Idle
    /\ LET checked == Checked(user, CanAddTable(user))
           existing == WhereTableNumber(tables, args.tableNumber)
       IN  IF checked # "Ok"
           THEN Reply(c, "addTable", user, args, checked) /\ UNCHANGED pending
           ELSE IF existing # {}
           THEN Reply(c, "addTable", user, args, "Conflict") /\ UNCHANGED pending
           ELSE /\ nextId + InFlight("addTable") <= MaxTables
                /\ Suspend(c, "addTable", user, args)

\* addTable, its prisma.table.create
addTableCreate(c) ==
    /\ pending[c].op = "addTable"
    /\ Commit(c, "addTable", pending[c].user, pending[c].args,
              TableCreate(tables, nextId, AddTableData(pending[c].args)))
    /\ pending' = [pending EXCEPT ![c] = Idle]

\* editTable with || undefined in place of ?? undefined (an array is never falsy)
EditTableDataFalsy(args) ==
    [tableNumber |-> IF Nullish(args.tableNumber) \/ args.tableNumber.v = 0
                     THEN Undefined ELSE args.tableNumber,
     diners |-> IF Nullish(args.diners) \/ args.diners.v = 0
                THEN Undefined ELSE args.diners,
     reserved |-> IF Nullish(args.reserved) \/ args.reserved.v = FALSE
                  THEN Undefined ELSE args.reserved,
     position |-> OrUndefined(args.position),
     specialRequests |-> OrUndefined(args.specialRequests),
     areaId |-> OrUndefined(args.areaId)]

\* editTable: the data of its update
EditTableData(args) ==
    [tableNumber |-> OrUndefined(args.tableNumber),
     diners |-> OrUndefined(args.diners),
     reserved |-> OrUndefined(args.reserved),
     position |-> OrUndefined(args.position),
     specialRequests |-> OrUndefined(args.specialRequests),
     areaId |-> OrUndefined(args.areaId)]

editTable(c, user, args) ==
    /\ pending[c] = Idle
    /\ LET checked == Checked(user, CanEditTable(user))
       IN  IF checked # "Ok"
           THEN Reply(c, "editTable", user, args, checked)
           ELSE Commit(c, "editTable", user, args,
                       TableUpdate(tables, nextId, WhereId(tables, args.id),
                                   EditTableData(args)))
    /\ UNCHANGED pending

\* prisma.table.delete({ where: { id } }) under referential action `action`
deleteTable(c, user, args, action) ==
    /\ pending[c] = Idle
    /\ LET checked == Checked(user, CanDeleteTable(user))
           refs == Referencing(orders, args.id)
       IN  IF checked # "Ok"
           THEN Reply(c, "deleteTable", user, args, checked)
           ELSE IF WhereId(tables, args.id) = {}
           THEN Reply(c, "deleteTable", user, args, "NotFound")
           ELSE IF refs # {} /\ action = "Restrict"
           THEN Reply(c, "deleteTable", user, args, "ForeignKey")
           ELSE /\ last' = Response("deleteTable", user, args, "Ok")
                /\ served' = served \cup {c}
                /\ tables' = Without(tables, args.id)
                /\ orders' = IF action = "Cascade"
                             THEN SelectSeq(orders, LAMBDA o : o.tableId # args.id)
                             ELSE orders
                /\ UNCHANGED nextId
    /\ UNCHANGED pending

\* toggleTableReservation, to the end of its findUnique
toggleTableReservation(c, user, args) ==
    /\ pending[c] = Idle
    /\ LET checked == Checked(user, CanToggleReservation(user))
           table == WhereId(tables, args.id)
       IN  IF checked # "Ok"
           THEN Reply(c, "toggleTableReservation", user, args, checked) /\ UNCHANGED pending
           ELSE IF table = {}
           THEN Reply(c, "toggleTableReservation", user, args, "NotFound") /\ UNCHANGED pending
           ELSE Suspend(c, "toggleTableReservation", user, args)

ToggleData(args) == [NoChange EXCEPT !.reserved = Some(args.reserved)]

\* toggleTableReservation, its prisma.table.update
toggleTableReservationUpdate(c) ==
    /\ pending[c].op = "toggleTableReservation"
    /\ Commit(c, "toggleTableReservation", pending[c].user, pending[c].args,
              TableUpdate(tables, nextId, WhereId(tables, pending[c].args.id),
                          ToggleData(pending[c].args)))
    /\ pending' = [pending EXCEPT ![c] = Idle]

\* the other status the resolver's comment offers
OrderDataPending(args) ==
    [orderNumber |-> args.orderNumber,
     tableId |-> args.tableId,
     status |-> "PENDING",
     note |-> OrDefault(OrUndefined(args.note), NoNote)]

\* findFirst with no where clause: any Table
OrderTableAny(tbls, args) == DOMAIN tbls

\* addOrderToTable: the Table its findUnique returns
OrderTable(tbls, args) == WhereId(tbls, args.tableId)

\* addOrderToTable: the data of the new Order
OrderData(args) ==
    [orderNumber |-> args.orderNumber,
     tableId |-> args.tableId,
     status |-> "PREPARING",
     note |-> OrDefault(OrUndefined(args.note), NoNote)]

\* addOrderToTable, to the end of its findUnique
addOrderToTable(c, user, args) ==
    /\ pending[c] = Idle
    /\ LET checked == Checked(user, CanAddOrder(user))
           table == OrderTable(tables, args)
       IN  IF checked # "Ok"
           THEN Reply(c, "addOrderToTable", user, args, checked) /\ UNCHANGED pending
           ELSE IF table = {}
           THEN Reply(c, "addOrderToTable", user, args, "NotFound") /\ UNCHANGED pending
           ELSE /\ Len(orders) + InFlight("addOrderToTable") < MaxOrders
                /\ Suspend(c, "addOrderToTable", user, args)

\* addOrderToTable, its prisma.order.create; `enforced`: tableId is a foreign key
addOrderToTableCreate(c, enforced) ==
    /\ pending[c].op = "addOrderToTable"
    /\ LET args == pending[c].args
       IN  IF enforced /\ WhereId(tables, args.tableId) = {}
           THEN Reply(c, "addOrderToTable", pending[c].user, args, "ForeignKey")
           ELSE /\ last' = Response("addOrderToTable", pending[c].user, args, "Ok")
                /\ served' = served \cup {c}
                /\ orders' = Append(orders, OrderData(args))
                /\ UNCHANGED <<tables, nextId>>
    /\ pending' = [pending EXCEPT ![c] = Idle]

\* movePositionTable, to the end of its findUnique
movePositionTable(c, user, args) ==
    /\ pending[c] = Idle
    /\ LET checked == Checked(user, CanMoveTable(user))
           table == WhereTableNumber(tables, args.tableNumber)
       IN  IF checked # "Ok"
           THEN Reply(c, "movePositionTable", user, args, checked) /\ UNCHANGED pending
           ELSE IF table = {}
           THEN Reply(c, "movePositionTable", user, args, "NotFound") /\ UNCHANGED pending
           ELSE Suspend(c, "movePositionTable", user, args)

\* the update also clears the reservation
MoveDataResets(args) ==
    [NoChange EXCEPT !.position = Some(args.position), !.reserved = Some(FALSE)]

MoveData(args) == [NoChange EXCEPT !.position = Some(args.position)]

\* movePositionTable, its prisma.table.update
movePositionTableUpdate(c) ==
    /\ pending[c].op = "movePositionTable"
    /\ Commit(c, "movePositionTable", pending[c].user, pending[c].args,
              TableUpdate(tables, nextId,
                          WhereTableNumber(tables, pending[c].args.tableNumber),
                          MoveData(pending[c].args)))
    /\ pending' = [pending EXCEPT ![c] = Idle]

(***************************************************************************)
(* Arguments.                                                              *)
(***************************************************************************)
AddTableArgs(numbers, dinerss, positions, areas, reserveds, requests) ==
    [tableNumber : numbers, diners : dinerss, position : positions,
     areaId : areas, reserved : reserveds, specialRequests : requests]

EditTableArgs(ids, numbers, dinerss, reserveds, positions, requests, areas) ==
    [id : ids, tableNumber : numbers, diners : dinerss, reserved : reserveds,
     position : positions, specialRequests : requests, areaId : areas]

\* the calls of the concurrent specifications
FewAddTableArgs ==
    AddTableArgs(TableNumbers, {4}, {Undefined}, {"a1"}, {Undefined}, {Undefined})
FewEditTableArgs ==
    EditTableArgs(TableIds, {Undefined} \cup {Some(n) : n \in TableNumbers},
                  {Undefined}, {Undefined}, {Undefined}, {Undefined}, {Undefined})
DeleteTableArgs == [id : TableIds]
ToggleArgs == [id : TableIds, reserved : BOOLEAN]
FewOrderArgs == [tableId : TableIds, orderNumber : {"o1"}, note : {Undefined}]
OrderArgs == [tableId : TableIds, orderNumber : OrderNumbers, note : Optional(Notes)]
MoveArgs == [tableNumber : TableNumbers, position : Positions]

Init ==
    /\ tables = NoTables
    /\ nextId = 1
    /\ orders = <<>>
    /\ pending = [c \in Clients |-> Idle]
    /\ last = NoCall
    /\ served = {}

SecondStep(c) ==
    \/ addTableCreate(c)
    \/ toggleTableReservationUpdate(c)
    \/ \E enforced \in ForeignKeyEnforced : addOrderToTableCreate(c, enforced)
    \/ movePositionTableUpdate(c)

(***************************************************************************)
(* Two clients, each an ADMIN, call concurrently.                          *)
(***************************************************************************)
ConcurrentNext ==
    \E c \in Clients :
        \/ \E args \in FewAddTableArgs : addTable(c, "ADMIN", args)
        \/ \E args \in FewEditTableArgs : editTable(c, "ADMIN", args)
        \/ \E args \in DeleteTableArgs, action \in ReferentialActions :
               deleteTable(c, "ADMIN", args, action)
        \/ \E args \in ToggleArgs : toggleTableReservation(c, "ADMIN", args)
        \/ \E args \in FewOrderArgs : addOrderToTable(c, "ADMIN", args)
        \/ \E args \in MoveArgs : movePositionTable(c, "ADMIN", args)
        \/ SecondStep(c)

SpecConcurrent == Init /\ [][ConcurrentNext]_vars

(***************************************************************************)
(* One client at a time, under every identity the session can supply.      *)
(***************************************************************************)
Next ==
    \/ \E u \in Users :
        \/ \E args \in FewAddTableArgs : addTable("c1", u, args)
        \/ \E args \in FewEditTableArgs : editTable("c1", u, args)
        \/ \E args \in DeleteTableArgs, action \in ReferentialActions :
               deleteTable("c1", u, args, action)
        \/ \E args \in ToggleArgs : toggleTableReservation("c1", u, args)
        \/ \E args \in FewOrderArgs : addOrderToTable("c1", u, args)
        \/ \E args \in MoveArgs : movePositionTable("c1", u, args)
    \/ SecondStep("c1")

Spec == Init /\ [][Next]_vars

(***************************************************************************)
(* Two clients, each calling addTable once.                                *)
(***************************************************************************)
RaceAddTableArgs ==
    AddTableArgs(TableNumbers, Diners, {Undefined, Some("x10y20")}, {"a1"},
                 {Undefined, Some(TRUE)}, {Undefined})

RaceNext ==
    \E c \in Clients :
        \/ /\ c \notin served
           /\ \E u \in {"ADMIN", "MANAGER"}, args \in RaceAddTableArgs :
                  addTable(c, u, args)
        \/ addTableCreate(c)

SpecRace == Init /\ [][RaceNext]_vars

(***************************************************************************)
(* editTable as a function of the store and its arguments: one call by an  *)
(* ADMIN on any store of at most MaxTables ids.                            *)
(***************************************************************************)
TableRecords ==
    [tableNumber : TableNumbers, diners : Diners,
     position : Positions \cup {NoPosition}, areaId : Areas,
     reserved : BOOLEAN, specialRequests : RequestLists]

Stores ==
    {t \in UNION {[D -> TableRecords] : D \in SUBSET TableIds} :
        \A i, j \in DOMAIN t : t[i].tableNumber = t[j].tableNumber => i = j}

ManyEditTableArgs ==
    EditTableArgs(TableIds,
                  {Undefined} \cup {Some(n) : n \in TableNumbers},
                  Optional(Diners), Optional(BOOLEAN),
                  {Undefined} \cup {Some(x) : x \in Positions},
                  {Undefined} \cup {Some(r) : r \in RequestLists},
                  {Undefined} \cup {Some(a) : a \in Areas})

EditInit ==
    /\ tables \in Stores
    /\ nextId = MaxTables + 1
    /\ orders = <<>>
    /\ pending = [c \in Clients |-> Idle]
    /\ last = NoCall
    /\ served = {}

EditNext ==
    /\ last = NoCall
    /\ \E args \in ManyEditTableArgs : editTable("c1", "ADMIN", args)

SpecEdit == EditInit /\ [][EditNext]_vars

(***************************************************************************)
(* addOrderToTable by the staff roles, with every argument varied, on      *)
(* tables an ADMIN adds and deletes; one client.                           *)
(***************************************************************************)
OrdersNext ==
    \/ \E args \in FewAddTableArgs : addTable("c1", "ADMIN", args)
    \/ addTableCreate("c1")
    \/ \E args \in DeleteTableArgs, action \in ReferentialActions :
           deleteTable("c1", "ADMIN", args, action)
    \/ \E u \in {"ADMIN", "MANAGER", "WAITER"}, args \in OrderArgs :
           addOrderToTable("c1", u, args)
    \/ \E enforced \in ForeignKeyEnforced : addOrderToTableCreate("c1", enforced)

SpecOrders == Init /\ [][OrdersNext]_vars

(***************************************************************************)
(* Properties.                                                             *)
(***************************************************************************)
Ops == {"addTable", "editTable", "deleteTable", "toggleTableReservation",
        "addOrderToTable", "movePositionTable"}

\* The step is client c's call r.op(r.args) under r.user, answered by response r
\* in the call's first step.
Answered(c, r) ==
    /\ r.op \in Ops
    /\ pending' = pending
    /\ CASE r.op = "addTable" -> addTable(c, r.user, r.args)
         [] r.op = "editTable" -> editTable(c, r.user, r.args)
         [] r.op = "deleteTable" ->
                \E action \in ReferentialActions : deleteTable(c, r.user, r.args, action)
         [] r.op = "toggleTableReservation" -> toggleTableReservation(c, r.user, r.args)
         [] r.op = "addOrderToTable" -> addOrderToTable(c, r.user, r.args)
         [] r.op = "movePositionTable" -> movePositionTable(c, r.user, r.args)

\* The step is the write of client c's suspended call of op.
Wrote(c, op) == pending[c].op = op /\ pending'[c] = Idle

StoreUnchanged == tables' = tables /\ orders' = orders

\* The roles the specification's table allows each operation.
AllowedRoles(op) ==
    CASE op = "addTable" -> {"ADMIN", "MANAGER"}
      [] op = "editTable" -> {"ADMIN"}
      [] op = "deleteTable" -> {"ADMIN"}
      [] op = "toggleTableReservation" -> {"ADMIN"}
      [] op = "addOrderToTable" -> {"ADMIN", "MANAGER", "WAITER"}
      [] op = "movePositionTable" -> {"ADMIN", "MANAGER"}

\* C1: a call of any of the six mutations with no authenticated user is answered
\* Unauthenticated, and the step leaves every Table and Order record as it was.
C1_UnauthenticatedWritesNothing ==
    [][\A c \in Clients :
          (last'.op \in Ops /\ last'.user = NoUser /\ Answered(c, last'))
          => (last'.outcome = "Unauthenticated" /\ StoreUnchanged)]_vars

\* An unauthenticated deleteTable of a Table of the store was refused, the Table kept.
C1_Witness ==
    /\ last.op = "deleteTable"
    /\ last.user = NoUser
    /\ last.outcome = "Unauthenticated"
    /\ last.args.id \in DOMAIN tables

\* C2: for every role and every mutation, the response to an authenticated caller
\* is Forbidden exactly when the role is outside the operation's allowed set, and
\* the step of such a call writes nothing.
C2_ForbiddenIffRoleOutside ==
    [][/\ (last'.op \in Ops /\ last'.user \in Roles)
          => (last'.outcome = "Forbidden" <=> last'.user \notin AllowedRoles(last'.op))
       /\ \A c \in Clients :
             (last'.op \in Ops /\ last'.user \in Roles
              /\ last'.user \notin AllowedRoles(last'.op) /\ Answered(c, last'))
             => StoreUnchanged]_vars

\* A MANAGER's editTable of a Table of the store was refused.
C2_Witness ==
    /\ last.op = "editTable"
    /\ last.user = "MANAGER"
    /\ last.outcome = "Forbidden"
    /\ last.args.id \in DOMAIN tables
    /\ last.args.tableNumber = Some(1)
    /\ tables[last.args.id].tableNumber = 0

WithNumber(tbls, n) == Cardinality(WhereTableNumber(tbls, n))

\* C3: of two authorized addTable calls with the same tableNumber, in any
\* interleaving of their findFirst and create steps, exactly one is answered Ok and
\* creates the one Table with that number, and the other is answered Conflict.
C3_ExactlyOneAddTableSucceeds ==
    [][(/\ served' = Clients
        /\ served # Clients
        /\ last.args.tableNumber = last'.args.tableNumber)
       => /\ {last.outcome, last'.outcome} = {"Ok", "Conflict"}
          /\ WithNumber(tables', last'.args.tableNumber) = 1]_vars

\* The race under way: one call has created the Table while the other, whose
\* findFirst found no such Table, is suspended before its create.
C3_Witness ==
    /\ served = {"c1"}
    /\ last.outcome = "Ok"
    /\ pending["c2"].op = "addTable"
    /\ pending["c2"].args.tableNumber = last.args.tableNumber
    /\ WithNumber(tables, last.args.tableNumber) = 1

\* C4: in every state reached by authorized addTable, editTable, deleteTable,
\* toggleTableReservation and movePositionTable calls (and addOrderToTable calls),
\* in any interleaving, no two Table records have the same tableNumber.
C4_TableNumberUnique ==
    \A i, j \in DOMAIN tables : tables[i].tableNumber = tables[j].tableNumber => i = j

\* An editTable that supplied the tableNumber of another Table was refused.
C4_Witness ==
    /\ last.op = "editTable"
    /\ last.outcome = "Conflict"
    /\ last.args.id \in DOMAIN tables
    /\ \E j \in DOMAIN tables \ {last.args.id} :
           last.args.tableNumber = Some(tables[j].tableNumber)

\* The Table the suspended call of client c is about.
Target(c) ==
    IF pending[c].op = "movePositionTable"
    THEN WhereTableNumber(tables, pending[c].args.tableNumber)
    ELSE IF pending[c].op = "toggleTableReservation"
    THEN WhereId(tables, pending[c].args.id)
    ELSE WhereId(tables, pending[c].args.tableId)

\* C5: the write of toggleTableReservation, addOrderToTable and movePositionTable
\* is atomic with the lookup before it: the call either is answered NotFound and
\* writes nothing, or is answered Ok and writes on a Table that exists at the write.
C5_LookupAndWriteAtomic ==
    [][\A c \in Clients :
          (Wrote(c, "toggleTableReservation") \/ Wrote(c, "addOrderToTable")
           \/ Wrote(c, "movePositionTable"))
          => \/ last'.outcome = "NotFound" /\ StoreUnchanged
             \/ last'.outcome = "Ok" /\ Target(c) # {}]_vars

\* C6: an authorized addOrderToTable whose tableId matches no Table is answered
\* NotFound in its first step with the Orders as they were, and is never suspended
\* before a create: no Order is created.
C6_OrderForMissingTableRefused ==
    [][\A c \in Clients :
          /\ (/\ last'.op = "addOrderToTable"
              /\ last'.user \in AllowedRoles("addOrderToTable")
              /\ Answered(c, last')
              /\ last'.args.tableId \notin DOMAIN tables)
             => (last'.outcome = "NotFound" /\ orders' = orders)
          /\ (pending[c] = Idle /\ pending'[c].op = "addOrderToTable")
             => pending'[c].args.tableId \in DOMAIN tables]_vars

\* A WAITER's order for an id that matches none of the Tables of the store was refused.
C6_Witness ==
    /\ last.op = "addOrderToTable"
    /\ last.user = "WAITER"
    /\ last.outcome = "NotFound"
    /\ last.args.tableId \notin DOMAIN tables
    /\ DOMAIN tables # {}
    /\ orders = <<>>

\* C7: every Order of the store has status PREPARING, and a successful
\* addOrderToTable appends exactly one Order, with status PREPARING and the
\* tableId of its arguments, whatever orderNumber and note it was given.
C7_OrdersArePreparing ==
    [][/\ \A i \in 1..Len(orders') : orders'[i].status = "PREPARING"
       /\ \A c \in Clients :
             (Wrote(c, "addOrderToTable") /\ last'.outcome = "Ok")
             => /\ Len(orders') = Len(orders) + 1
                /\ SubSeq(orders', 1, Len(orders)) = orders
                /\ orders'[Len(orders')].status = "PREPARING"
                /\ orders'[Len(orders')].tableId = pending[c].args.tableId]_vars

\* A WAITER's order with a note was created.
C7_Witness ==
    /\ last.op = "addOrderToTable"
    /\ last.user = "WAITER"
    /\ last.outcome = "Ok"
    /\ Len(orders) = 1
    /\ orders[1].status = "PREPARING"
    /\ orders[1].tableId = last.args.tableId
    /\ orders[1].orderNumber = "o2"
    /\ orders[1].note = "no onions"

Supplied(x) == x.k = "value"

\* Field f of Table id after the step: the supplied value, else the prior value.
Updated(id, f, x) ==
    tables'[id][f] = IF Supplied(x) THEN x.v ELSE tables[id][f]

\* C8: a successful editTable writes to the Table of its id exactly the fields
\* whose argument is a value (zero, false and the empty list included), leaves its
\* other fields and every other Table and Order as they were, and a failed
\* editTable writes nothing.
C8_EditWritesSuppliedFieldsOnly ==
    [][\A c \in Clients :
          (last'.op = "editTable" /\ last'.user = "ADMIN" /\ Answered(c, last'))
          => LET a == last'.args
             IN  /\ orders' = orders
                 /\ last'.outcome # "Ok" => tables' = tables
                 /\ last'.outcome = "Ok" =>
                        /\ a.id \in DOMAIN tables
                        /\ DOMAIN tables' = DOMAIN tables
                        /\ \A i \in DOMAIN tables \ {a.id} : tables'[i] = tables[i]
                        /\ Updated(a.id, "tableNumber", a.tableNumber)
                        /\ Updated(a.id, "diners", a.diners)
                        /\ Updated(a.id, "reserved", a.reserved)
                        /\ Updated(a.id, "position", a.position)
                        /\ Updated(a.id, "specialRequests", a.specialRequests)
                        /\ Updated(a.id, "areaId", a.areaId)]_vars

\* An editTable that supplied only diners, as 0, left a reserved Table with a
\* position, a request and area a2 with those values, beside another Table.
C8_Witness ==
    /\ last.op = "editTable"
    /\ last.outcome = "Ok"
    /\ last.args = [NoChange EXCEPT !.diners = Some(0)] @@ [id |-> 1]
    /\ DOMAIN tables = {1, 2}
    /\ tables[1] = [tableNumber |-> 1, diners |-> 0, reserved |-> TRUE,
                    position |-> "x10y20", specialRequests |-> <<"window">>,
                    areaId |-> "a2"]

\* C9: the update of movePositionTable(tableNumber = n, position = p), when a Table
\* has number n, is answered Ok and changes that Table's position to p and nothing
\* else of any Table or Order; when none has, the call is answered NotFound (by its
\* lookup, or by its update when the Table went after the lookup) and writes nothing.
C9_MoveWritesPositionOnly ==
    [][\A c \in Clients :
          /\ Wrote(c, "movePositionTable")
             => LET a == pending[c].args
                    hit == WhereTableNumber(tables, a.tableNumber)
                IN  IF hit = {}
                    THEN last'.outcome = "NotFound" /\ StoreUnchanged
                    ELSE /\ last'.outcome = "Ok"
                         /\ orders' = orders
                         /\ DOMAIN tables' = DOMAIN tables
                         /\ \A i \in DOMAIN tables :
                                tables'[i] = IF i \in hit
                                             THEN [tables[i] EXCEPT !.position = a.position]
                                             ELSE tables[i]
          /\ (/\ last'.op = "movePositionTable"
              /\ last'.user \in AllowedRoles("movePositionTable")
              /\ Answered(c, last'))
             => /\ WhereTableNumber(tables, last'.args.tableNumber) = {}
                /\ last'.outcome = "NotFound"
                /\ StoreUnchanged]_vars

\* A reserved Table, one of two, was moved.
C9_Witness ==
    /\ last.op = "movePositionTable"
    /\ last.outcome = "Ok"
    /\ Cardinality(DOMAIN tables) = 2
    /\ \E i \in DOMAIN tables :
           /\ tables[i].tableNumber = last.args.tableNumber
           /\ tables[i].position = last.args.position
           /\ tables[i].reserved

\* C10: an authorized editTable whose id matches no Table is answered NotFound and
\* leaves the Table records, and the ids in use, exactly as they were.
C10_EditOfMissingTableRefused ==
    [][\A c \in Clients :
          (/\ last'.op = "editTable"
           /\ last'.user = "ADMIN"
           /\ Answered(c, last')
           /\ last'.args.id \notin DOMAIN tables)
          => (last'.outcome = "NotFound" /\ tables' = tables /\ nextId' = nextId)]_vars

\* An editTable that supplied diners for an id that matches none of the Tables
\* of the store was refused.
C10_Witness ==
    /\ last.op = "editTable"
    /\ last.outcome = "NotFound"
    /\ last.args.id \notin DOMAIN tables
    /\ last.args.diners = Some(4)
    /\ DOMAIN tables # {}

====
